---- MODULE Spec2Model ----
(***************************************************************************)
(* IRMAN'S DREAM CALCULATOR (src/app1.py): a Streamlit script.  Every      *)
(* widget edit and every button press re-runs the script from top to       *)
(* bottom; the only thing that survives a run, besides the widget values,  *)
(* is st.session_state.                                                    *)
(*                                                                         *)
(* Money computed by the script is a Python float.  The model keeps it as  *)
(* an exact fixed-point integer, in units of 1/Scale rupee: every product  *)
(* with a percentage and the division by len(goals) is then exact.         *)
(***************************************************************************)
EXTENDS Integers, Sequences, FiniteSets, TLC

\* ---------------------------------------------------------------- bounds
MaxSalary == 2
MaxExpenses == 1
GoalUnit == 20
MaxGoalUnits == 2
CapStep == 10
MaxCapSteps == 21
MaxEdits == 3

\* ------------------------------------------------------- program constants
NumGoals == 5
MinHorizon == 5
DefaultHorizon == 10
MaxHorizon == 30
MinImportance == 10
DefaultImportance == 50
MaxImportance == 100
MIN_PERCENT == 35
MonthsPerYear == 12
PercentBase == 100

Scale == PercentBase * PercentBase * NumGoals
Money(rupees) == rupees * Scale

Goals == 1..NumGoals
GoalNames ==
  << "Asset creation", "Emergency fund", "Education / loan repayment",
     "Marriage & family setup", "Social contribution" >>

JobOptions ==
  << "Stable and satisfying (no penalty)",
     "Somewhat unstable (5% income loss)",
     "Highly unstable or stressful (12% income loss)" >>
HealthOptions ==
  << "Good sleep and exercise (no penalty)",
     "Irregular routine (5% income loss)",
     "Poor health habits (10% income loss)" >>
AqiOptions ==
  << "Mostly good AQI (no penalty)",
     "Moderate AQI (4% expense increase)",
     "Poor AQI most of the year (8% expense increase)" >>
FamilyOptions ==
  << "Living with family (5% lower expenses)",
     "Living away from family (5% higher expenses)" >>
WorkOptions ==
  << "Balanced and sustainable (no penalty)",
     "Aggressive long hours (8% income boost)",
     "Frequent burnout cycles (12% income loss)" >>

Range(s) == {s[i] : i \in DOMAIN s}

\* ---------------------------------------------------- sampled input values
Salaries == 0..MaxSalary
ExpenseValues == 0..MaxExpenses
Horizons == {MinHorizon, DefaultHorizon, MaxHorizon}
GoalAmounts == {k * GoalUnit : k \in 0..MaxGoalUnits}
ImportanceChoices == {MinImportance, MaxImportance}
Capacities == {Money(k * CapStep) : k \in 0..MaxCapSteps}

Min(a, b) == IF a <= b THEN a ELSE b
Max(a, b) == IF a >= b THEN a ELSE b

RECURSIVE SumSeq(_)
SumSeq(s) == IF s = << >> THEN 0 ELSE s[1] + SumSeq(Tail(s))

Last(s) == s[Len(s)]

VARIABLES
  widgets,            \* the values of the input widgets
  session_state,      \* st.session_state: survives from run to run
  outcome,            \* how the latest script run ended
  adjusted_surplus,   \* locals of the latest run (fixed point)
  optimized,
  remaining,
  total_stress_after,
  trace,              \* optimized/remaining after every loop iteration
  edits               \* widget edits made so far in the session

vars == << widgets, session_state, outcome, adjusted_surplus, optimized,
           remaining, total_stress_after, trace, edits >>

\* ------------------------------------------------------ surplus calculator
income_penalty(job, health, work) ==
    (IF job = JobOptions[2] THEN 5 ELSE IF job = JobOptions[3] THEN 12 ELSE 0)
  + (IF health = HealthOptions[2] THEN 5
     ELSE IF health = HealthOptions[3] THEN 10 ELSE 0)
  + (IF work = WorkOptions[2] THEN 0 - 8
     ELSE IF work = WorkOptions[3] THEN 12 ELSE 0)

expense_penalty(aqi, family) ==
    (IF aqi = AqiOptions[2] THEN 4 ELSE IF aqi = AqiOptions[3] THEN 8 ELSE 0)
  + (IF family = FamilyOptions[1] THEN 0 - 5 ELSE 5)

base_surplus(w) == w.salary - w.expenses

AdjustedSurplus(base, ip, ep) ==
  base * (PercentBase - ip) * (PercentBase - ep)
       * (Scale \div (PercentBase * PercentBase))

adjusted_surplus_of(w) ==
  AdjustedSurplus(base_surplus(w),
                  income_penalty(w.job, w.health, w.work),
                  expense_penalty(w.aqi, w.family))

FeasibleCapacity(adjusted, years) == adjusted * MonthsPerYear * years

\* --------------------------------------------------------- stress diagnosis
StressBefore(gl, imp, cap) ==
  LET equal_share == cap \div NumGoals
  IN  [g \in Goals |-> Max(Money(gl[g]) - equal_share, 0) * imp[g]]

DiagnosisState(gl, imp, cap) ==
  LET stress_before == StressBefore(gl, imp, cap)
  IN  [feasible_capacity |-> cap,
       stress_before |-> stress_before,
       total_stress_before |-> SumSeq(stress_before)]

\* ------------------------------------------------------------- optimization
\* Variant: the floor is not clamped to what is left in the pool.
FloorAllocUnclamped(goal, rem) == (Money(goal) * MIN_PERCENT) \div PercentBase

FloorAlloc(goal, rem) == Min((Money(goal) * MIN_PERCENT) \div PercentBase, rem)

\* Variant: the floor is handed out but not taken from the pool.
Phase1StepNoDebit(goal, st) ==
  LET alloc == FloorAlloc(goal, st.remaining)
  IN  [optimized |-> Append(st.optimized, alloc), remaining |-> st.remaining]

Phase1Step(goal, st) ==
  LET alloc == FloorAlloc(goal, st.remaining)
  IN  [optimized |-> Append(st.optimized, alloc),
       remaining |-> st.remaining - alloc]

RECURSIVE Phase1(_, _, _)
Phase1(gl, tr, k) ==
  IF k > NumGoals THEN tr
  ELSE Phase1(gl, Append(tr, Phase1Step(gl[k], Last(tr))), k + 1)

\* Variant: ascending sort (reverse=True dropped).
InsertAscending(imp, s, g) ==
  LET k == Cardinality({i \in 1..Len(s) : imp[s[i]] <= imp[g]})
  IN  SubSeq(s, 1, k) \o << g >> \o SubSeq(s, k + 1, Len(s))

\* Variant: descending, but goals of equal importance come out reversed.
InsertBeforeTies(imp, s, g) ==
  LET k == Cardinality({i \in 1..Len(s) : imp[s[i]] > imp[g]})
  IN  SubSeq(s, 1, k) \o << g >> \o SubSeq(s, k + 1, Len(s))

\* sorted(goals, key=importance, reverse=True): a stable insertion sort, so
\* goals of equal importance keep their insertion order.
InsertByImportance(imp, s, g) ==
  LET k == Cardinality({i \in 1..Len(s) : imp[s[i]] >= imp[g]})
  IN  SubSeq(s, 1, k) \o << g >> \o SubSeq(s, k + 1, Len(s))

RECURSIVE SortedPrefix(_, _)
SortedPrefix(imp, n) ==
  IF n = 0 THEN << >> ELSE InsertByImportance(imp, SortedPrefix(imp, n - 1), n)

SortedGoals(imp) == SortedPrefix(imp, NumGoals)

\* Variant: Phase 2 hands out the full target, not the part above the floor.
ExtraFullTarget(goal, opt, rem) == Min(Money(goal), rem)

\* Variant: Phase 2 repeats the Phase 1 amount.
ExtraFloorAgain(goal, opt, rem) ==
  Min((Money(goal) * MIN_PERCENT) \div PercentBase, rem)

Extra(goal, opt, rem) == Min(Money(goal) - opt, rem)

Phase2Step(gl, g, st) ==
  LET extra == Extra(gl[g], st.optimized[g], st.remaining)
  IN  [optimized |-> [st.optimized EXCEPT ![g] = @ + extra],
       remaining |-> st.remaining - extra]

RECURSIVE Phase2(_, _, _, _)
Phase2(gl, order, tr, j) ==
  IF j > NumGoals \/ Last(tr).remaining <= 0 THEN tr
  ELSE Phase2(gl, order, Append(tr, Phase2Step(gl, order[j], Last(tr))), j + 1)

Allocation(gl, imp, cap) ==
  Phase2(gl, SortedGoals(imp),
         Phase1(gl, << [optimized |-> << >>, remaining |-> cap] >>, 1), 1)

StressAfter(gl, imp, opt) ==
  [g \in Goals |-> Max(Money(gl[g]) - opt[g], 0) * imp[g]]

OptimizeOutcome(gl, before) ==
  IF before = 0 THEN "ZeroDivisionError: improvement"
  ELSE IF \E g \in Goals : gl[g] = 0 THEN "ZeroDivisionError: summary"
  ELSE "optimized"

\* --------------------------------------------------------------- script run
NoAllocation ==
  /\ optimized' = << >>
  /\ remaining' = 0
  /\ total_stress_after' = 0
  /\ trace' = << >>

Stop(signal) ==
  /\ outcome' = signal
  /\ adjusted_surplus' = 0
  /\ NoAllocation
  /\ UNCHANGED session_state

Diagnosis(w) ==
  /\ session_state' =
       DiagnosisState(w.goals, w.importance,
                      FeasibleCapacity(adjusted_surplus_of(w), w.horizon_years))
  /\ outcome' = "diagnosed"
  /\ NoAllocation

Optimization(w) ==
  IF "feasible_capacity" \notin DOMAIN session_state
  THEN /\ outcome' = "run diagnosis first"
       /\ NoAllocation
       /\ UNCHANGED session_state
  ELSE \E tr \in {Allocation(w.goals, w.importance,
                              session_state.feasible_capacity)} :
         /\ trace' = tr
         /\ optimized' = Last(tr).optimized
         /\ remaining' = Last(tr).remaining
         /\ total_stress_after' =
              SumSeq(StressAfter(w.goals, w.importance, Last(tr).optimized))
         /\ outcome' =
              OptimizeOutcome(w.goals, session_state.total_stress_before)
         /\ UNCHANGED session_state

ScriptRun(w, button) ==
  /\ widgets' = w
  /\ IF w.salary <= 0 THEN Stop("Income is required")
     ELSE IF base_surplus(w) <= 0 THEN Stop("Expenses exceed income")
     ELSE /\ adjusted_surplus' = adjusted_surplus_of(w)
          /\ CASE button = "diagnose" -> Diagnosis(w)
               [] button = "optimize" -> Optimization(w)
               [] OTHER -> /\ outcome' = "rendered"
                           /\ NoAllocation
                           /\ UNCHANGED session_state

\* ------------------------------------------------------------------ actions
Edit(w) ==
  /\ edits < MaxEdits
  /\ edits' = edits + 1
  /\ ScriptRun(w, "none")

SetHorizon(v) == v /= widgets.horizon_years
                 /\ Edit([widgets EXCEPT !.horizon_years = v])
SetSalary(v) == v /= widgets.salary /\ Edit([widgets EXCEPT !.salary = v])
SetExpenses(v) == v /= widgets.expenses
                  /\ Edit([widgets EXCEPT !.expenses = v])
SetJob(v) == v /= widgets.job /\ Edit([widgets EXCEPT !.job = v])
SetHealth(v) == v /= widgets.health /\ Edit([widgets EXCEPT !.health = v])
SetAqi(v) == v /= widgets.aqi /\ Edit([widgets EXCEPT !.aqi = v])
SetFamily(v) == v /= widgets.family /\ Edit([widgets EXCEPT !.family = v])
SetWork(v) == v /= widgets.work /\ Edit([widgets EXCEPT !.work = v])
SetGoal(g, v) == v /= widgets.goals[g]
                 /\ Edit([widgets EXCEPT !.goals[g] = v])
SetImportance(g, v) == v /= widgets.importance[g]
                       /\ Edit([widgets EXCEPT !.importance[g] = v])

Diagnose == ScriptRun(widgets, "diagnose") /\ UNCHANGED edits
Optimize == ScriptRun(widgets, "optimize") /\ UNCHANGED edits

\* ----------------------------------------------------------- initial states
DefaultWidgets ==
  [horizon_years |-> DefaultHorizon, salary |-> 0, expenses |-> 0,
   job |-> JobOptions[1], health |-> HealthOptions[1], aqi |-> AqiOptions[1],
   family |-> FamilyOptions[1], work |-> WorkOptions[1],
   goals |-> [g \in Goals |-> 0],
   importance |-> [g \in Goals |-> DefaultImportance]]

EmptySession == [k \in {} |-> 0]

FreshRun ==
  /\ adjusted_surplus = 0
  /\ optimized = << >>
  /\ remaining = 0
  /\ total_stress_after = 0
  /\ trace = << >>
  /\ edits = 0

\* The session as the browser opens it: default widgets, nothing stored.
Init ==
  /\ widgets = DefaultWidgets
  /\ session_state = EmptySession
  /\ outcome = "Income is required"
  /\ FreshRun

Next ==
  \/ \E v \in Horizons : SetHorizon(v)
  \/ \E v \in Salaries : SetSalary(v)
  \/ \E v \in ExpenseValues : SetExpenses(v)
  \/ \E v \in Range(JobOptions) : SetJob(v)
  \/ \E v \in Range(HealthOptions) : SetHealth(v)
  \/ \E v \in Range(AqiOptions) : SetAqi(v)
  \/ \E v \in Range(FamilyOptions) : SetFamily(v)
  \/ \E v \in Range(WorkOptions) : SetWork(v)
  \/ \E g \in Goals, v \in GoalAmounts : SetGoal(g, v)
  \/ \E g \in Goals, v \in ImportanceChoices : SetImportance(g, v)
  \/ Diagnose
  \/ Optimize

Spec == Init /\ [][Next]_vars

\* The allocator on its own: a diagnosis has stored some capacity, the form
\* holds some goals and importances, and the user presses "Optimize".
InitAlloc ==
  /\ \E gl \in [Goals -> GoalAmounts], imp \in [Goals -> ImportanceChoices],
        cap \in Capacities :
       /\ widgets = [DefaultWidgets EXCEPT !.salary = 1, !.goals = gl,
                                           !.importance = imp]
       /\ session_state = DiagnosisState(gl, imp, cap)
       /\ adjusted_surplus = adjusted_surplus_of(widgets)
  /\ outcome = "diagnosed"
  /\ optimized = << >>
  /\ remaining = 0
  /\ total_stress_after = 0
  /\ trace = << >>
  /\ edits = 0

NextAlloc == Optimize

SpecAlloc == InitAlloc /\ [][NextAlloc]_vars

\* One sitting with no edit after the form is filled in: the user diagnoses
\* and optimizes the same inputs.
RenderOutcome(w) ==
  IF w.salary <= 0 THEN "Income is required"
  ELSE IF base_surplus(w) <= 0 THEN "Expenses exceed income"
  ELSE "rendered"

InitPlan ==
  /\ \E s \in Salaries, e \in ExpenseValues, h \in Horizons,
        gl \in [Goals -> GoalAmounts], imp \in [Goals -> ImportanceChoices] :
       widgets = [DefaultWidgets EXCEPT !.salary = s, !.expenses = e,
                                        !.horizon_years = h, !.goals = gl,
                                        !.importance = imp]
  /\ session_state = EmptySession
  /\ outcome = RenderOutcome(widgets)
  /\ adjusted_surplus =
       IF outcome = "rendered" THEN adjusted_surplus_of(widgets) ELSE 0
  /\ optimized = << >>
  /\ remaining = 0
  /\ total_stress_after = 0
  /\ trace = << >>
  /\ edits = 0

NextPlan == Diagnose \/ Optimize

SpecPlan == InitPlan /\ [][NextPlan]_vars

\* ------------------------------------------------------------------- claims
\* The latest run was an optimize run that reached the allocation loops.
Allocated ==
  outcome \in {"optimized", "ZeroDivisionError: improvement",
               "ZeroDivisionError: summary"}

Target(g) == Money(widgets.goals[g])
TotalTarget == SumSeq([g \in Goals |-> Target(g)])
Pool == session_state.feasible_capacity
NominalFloor(g) == (Target(g) * MIN_PERCENT) \div PercentBase
Phase1Floor(g) == trace[NumGoals + 1].optimized[g]
Precedes(imp, h, g) == imp[h] > imp[g] \/ (imp[h] = imp[g] /\ h < g)
ImportanceLevels == {MinImportance, DefaultImportance, MaxImportance}
AllocatedWith(imp) == Last(Allocation(widgets.goals, imp, Pool)).optimized

\* C1: the allocation never exceeds the pool, and `remaining` is never
\* negative after any iteration of the Phase 1 or the Phase 2 loop.
C1_Conservation ==
  Allocated =>
    /\ \A i \in DOMAIN trace : trace[i].remaining >= 0
    /\ SumSeq(optimized) <= Pool

\* C1 witness: the pool ran out inside Phase 1 (a floor was clamped).
C1_Witness ==
  /\ Allocated
  /\ Pool > 0
  /\ \E g \in Goals : Phase1Floor(g) > 0 /\ Phase1Floor(g) < NominalFloor(g)
  /\ SumSeq(optimized) = Pool

\* C2: after every iteration of either loop, every goal allocated so far
\* holds between 0 and its target.
C2_UpperBound ==
  Allocated =>
    \A i \in DOMAIN trace : \A g \in DOMAIN trace[i].optimized :
      0 <= trace[i].optimized[g] /\ trace[i].optimized[g] <= Target(g)

\* C2 witness: one goal was filled to its target, another got more than its
\* floor and less than its target.
C2_Witness ==
  /\ Allocated
  /\ \E g \in Goals : Target(g) > 0 /\ optimized[g] = Target(g)
  /\ \E h \in Goals : Phase1Floor(h) < optimized[h] /\ optimized[h] < Target(h)

\* C3: a pool that covers the sum of the targets fills every goal exactly.
C3_FullSatisfiability ==
  (Allocated /\ Pool >= TotalTarget) =>
    \A g \in Goals : optimized[g] = Target(g)

\* C3 witness: the pool covers the targets with less than one step to spare.
C3_Witness ==
  /\ Allocated
  /\ TotalTarget > 0
  /\ Pool >= TotalTarget
  /\ Pool - TotalTarget < Money(CapStep)
  /\ \E g, h \in Goals : Target(g) > Target(h) /\ Target(h) > 0

\* C4: a pool smaller than the sum of the targets is spent completely.
C4_NothingLeftUnspent ==
  (Allocated /\ Pool < TotalTarget) =>
    (SumSeq(optimized) = Pool /\ remaining = 0)

\* C4 witness: a short pool that survived Phase 1 and was used up in Phase 2.
C4_Witness ==
  /\ Allocated
  /\ Pool < TotalTarget
  /\ trace[NumGoals + 1].remaining > 0
  /\ Len(trace) > NumGoals + 2
  /\ remaining = 0

\* C5: with everything else fixed, a strictly higher importance for a goal
\* never lowers that goal's allocation.
C5_PriorityMonotone ==
  Allocated =>
    \A a \in Goals : \A v \in ImportanceLevels :
      v > widgets.importance[a] =>
        AllocatedWith([widgets.importance EXCEPT ![a] = v])[a] >= optimized[a]

\* C5 witness: raising some goal's importance strictly raises its allocation,
\* and raising it only as far as a tie with an earlier goal does not.
C5_Witness ==
  /\ Allocated
  /\ \E a \in Goals : \E v \in ImportanceLevels :
       /\ v > widgets.importance[a]
       /\ AllocatedWith([widgets.importance EXCEPT ![a] = v])[a] > optimized[a]
  /\ \E a \in Goals : \E h \in 1..(a - 1) :
       /\ widgets.importance[h] > widgets.importance[a]
       /\ optimized[a] < Target(a)
       /\ AllocatedWith([widgets.importance EXCEPT
                           ![a] = widgets.importance[h]])[a] = optimized[a]

\* C8: a goal that ends above its Phase 1 floor has every goal ahead of it in
\* the fill order (higher importance, or equal importance and earlier
\* insertion) filled to its target.
C8_FillOrder ==
  Allocated =>
    \A g \in Goals :
      optimized[g] > Phase1Floor(g) =>
        \A h \in Goals :
          Precedes(widgets.importance, h, g) => optimized[h] = Target(h)

\* C8 witness: a goal above its floor behind an equally important earlier
\* goal, while a goal further down the order stays at its floor.
C8_Witness ==
  /\ Allocated
  /\ \E g \in Goals : \E h \in 1..(g - 1) :
       /\ widgets.importance[h] = widgets.importance[g]
       /\ Target(h) > 0
       /\ optimized[g] > Phase1Floor(g)
  /\ \E k \in Goals : Target(k) > 0 /\ optimized[k] = Phase1Floor(k)

\* C6 as claimed: the stored capacity is
\* (salary*(1-income_penalty) - expenses*(1+expense_penalty)) * 12 * years.
ClaimedAdjustedSurplus(w) ==
  ( w.salary * (PercentBase - income_penalty(w.job, w.health, w.work))
    - w.expenses * (PercentBase + expense_penalty(w.aqi, w.family)) )
  * (Scale \div PercentBase)

C6_CapacityFormula ==
  outcome = "diagnosed" =>
    /\ adjusted_surplus = ClaimedAdjustedSurplus(widgets)
    /\ session_state.feasible_capacity =
         ClaimedAdjustedSurplus(widgets) * MonthsPerYear * widgets.horizon_years

\* C7 as claimed: the capacity and the stress total an optimize run uses are
\* the ones its own inputs give.
C7_NoStaleState ==
  Allocated =>
    LET cap == FeasibleCapacity(adjusted_surplus_of(widgets),
                                widgets.horizon_years)
    IN  /\ session_state.feasible_capacity = cap
        /\ session_state.total_stress_before =
             SumSeq(StressBefore(widgets.goals, widgets.importance, cap))

\* C9 as claimed: the stress after optimization is at most the stress the
\* diagnosis of the same inputs reported.
C9_StressNeverIncreases ==
  Allocated => total_stress_after <= session_state.total_stress_before

\* C10 as claimed: no optimize run ends in a division by zero.
C10_NoArithmeticError ==
  outcome \notin {"ZeroDivisionError: improvement",
                  "ZeroDivisionError: summary"}

====
